---- MODULE Spec2Model ----
(***************************************************************************)
(* SpecialConstraintToPenalty                                              *)
(* (qiskit_optimization/converters/special_constraint_to_penalty.py).      *)
(*                                                                         *)
(* Reals are fixed-point numbers counted in halves: the integer n stands   *)
(* for n/2, so 1.5 is 3 and 1e5 is 200000.  An optional value is <<>>      *)
(* (None) or <<v>>.  A dict is a function whose domain is its key set;     *)
(* variable indices are 0-based as in the code, and a quadratic key is a   *)
(* pair <<i, j>> with i <= j.                                              *)
(***************************************************************************)
EXTENDS Integers, Sequences, FiniteSets

VARIABLES
    problem,                 \* the caller's problem instance
    _src,                    \* self._src
    _dst,                    \* self._dst
    _penalty,                \* self._penalty
    _should_define_penalty,  \* self._should_define_penalty
    ret,                     \* the last call: its name, argument and outcome
    configured,              \* history: the last penalty given to __init__ or the setter
    converted,               \* history: the problem handed to the last convert call
    before                   \* history: self._penalty when the last convert call began

vars == <<problem, _src, _dst, _penalty, _should_define_penalty, ret, configured,
          converted, before>>

\* ---------------------------------------------------------------- bounds

\* Largest number of variables of a problem.
MaxVars == 3
\* Largest number of linear constraints of a problem.
MaxCons == 2

\* ---------------------------------------------------------------- numbers

Real(n) == 2 * n

is_integer(t) == t % 2 = 0

Abs(t) == IF t < 0 THEN -t ELSE t

\* Product of two reals, one of which is integral.
Mul(a, b) == (a * b) \div 2

None == <<>>

Some(v) == <<v>>

Idx(n) == 0 .. (n - 1)

RECURSIVE SumOver(_, _)
SumOver(f, S) ==
    IF S = {} THEN 0
    ELSE LET k == CHOOSE k \in S : TRUE IN f[k] + SumOver(f, S \ {k})

\* fsum over the values of a dict.
fsum(d) == SumOver(d, DOMAIN d)

\* ---------------------------------------------------------------- dicts

\* What an expression keeps of the coefficients it is given: the nonzero ones.
Expr(d) == [k \in {j \in DOMAIN d : d[j] # 0} |-> d[k]]

\* d.get(k, 0.0)
Get(d, k) == IF k \in DOMAIN d THEN d[k] ELSE 0

\* d[k] = d.get(k, 0.0) + v
AddTo(d, k, v) == [j \in (DOMAIN d) \cup {k} |-> IF j = k THEN Get(d, k) + v ELSE d[j]]

\* A coefficient list [c0, c1, ...] as the dict of its expression.
FromList(l) == Expr([k \in Idx(Len(l)) |-> l[k + 1]])

\* A coefficient matrix as the dict of its expression: one entry per unordered
\* pair, the two symmetric entries merged.
FromMatrix(m) ==
    Expr([p \in {q \in Idx(Len(m)) \X Idx(Len(m)) : q[1] <= q[2]} |->
            IF p[1] = p[2] THEN m[p[1] + 1][p[2] + 1]
            ELSE m[p[1] + 1][p[2] + 1] + m[p[2] + 1][p[1] + 1]])

\* ---------------------------------------------------------------- problems

MINIMIZE == 1

MAXIMIZE == -1

\* QuadraticProgram(name): no variables, no constraints, objective minimize 0.
QuadraticProgram(name) ==
    [name |-> name, variables |-> <<>>, sense |-> MINIMIZE, constant |-> 0,
     linear |-> <<>>, quadratic |-> <<>>,
     linear_constraints |-> <<>>, quadratic_constraints |-> <<>>]

Variable(name, vartype, lb, ub) ==
    [name |-> name, vartype |-> vartype, lowerbound |-> lb, upperbound |-> ub]

continuous_var(qp, lb, ub, name) ==
    [qp EXCEPT !.variables = Append(@, Variable(name, "CONTINUOUS", lb, ub))]

binary_var(qp, name) ==
    [qp EXCEPT !.variables = Append(@, Variable(name, "BINARY", 0, Real(1)))]

integer_var(qp, lb, ub, name) ==
    [qp EXCEPT !.variables = Append(@, Variable(name, "INTEGER", lb, ub))]

linear_constraint(qp, linear, sense, rhs, name) ==
    [qp EXCEPT !.linear_constraints =
        Append(@, [linear |-> Expr(linear), sense |-> sense, rhs |-> rhs, name |-> name])]

quadratic_constraint(qp, linear, quadratic, sense, rhs, name) ==
    [qp EXCEPT !.quadratic_constraints =
        Append(@, [linear |-> Expr(linear), quadratic |-> Expr(quadratic),
                   sense |-> sense, rhs |-> rhs, name |-> name])]

minimize(qp, constant, linear, quadratic) ==
    [qp EXCEPT !.sense = MINIMIZE, !.constant = constant,
               !.linear = Expr(linear), !.quadratic = Expr(quadratic)]

maximize(qp, constant, linear, quadratic) ==
    [qp EXCEPT !.sense = MAXIMIZE, !.constant = constant,
               !.linear = Expr(linear), !.quadratic = Expr(quadratic)]

get_num_vars(qp) == Len(qp.variables)

\* copy.deepcopy(problem): an independent instance with the same content.
deepcopy(qp) == qp

\* ---------------------------------------------------------------- templates

RealList(l) == [i \in 1 .. Len(l) |-> Real(l[i])]

RealMatrix(m) == [i \in 1 .. Len(m) |-> RealList(m[i])]

\* SpecialConstraint(qb, linear, sense, rhs, penalty_constant, penalty_linear,
\* penalty_quadratic) over the three binary variables of self._qb.
SpecialConstraint(linear, sense, rhs, constant, penalty_linear, penalty_quadratic) ==
    [linear |-> FromList(RealList(linear)), sense |-> sense, rhs |-> Real(rhs),
     penalty_constant |-> Real(constant),
     penalty_linear_expression |-> FromList(RealList(penalty_linear)),
     penalty_quadratic_expression |-> FromMatrix(RealMatrix(penalty_quadratic))]

_special_constraints ==
    << SpecialConstraint(<<1, 1, 0>>, "<=", 1, 1, <<0, 0, 0>>,
                         << <<0, 1, 0>>, <<0, 0, 0>>, <<0, 0, 0>> >>),
       SpecialConstraint(<<1, 1, 0>>, ">=", 1, 1, <<-1, -1, 0>>,
                         << <<0, 1, 0>>, <<0, 0, 0>>, <<0, 0, 0>> >>) >>

Values(d) == {d[k] : k \in DOMAIN d}

\* How many keys of d carry the coefficient v.
Count(d, v) == Cardinality({k \in DOMAIN d : d[k] = v})

\* The pattern matcher: same comparison sense, same right-hand side, and the same
\* nonzero coefficients, as many times each, as the template.
is_special_constraint(special_constraint, constraint) ==
    /\ constraint.sense = special_constraint.sense
    /\ constraint.rhs = special_constraint.rhs
    /\ \A v \in Values(constraint.linear) \cup Values(special_constraint.linear) :
          Count(constraint.linear, v) = Count(special_constraint.linear, v)

\* ---------------------------------------------------------------- estimator

default_penalty == Real(100000)

\* any(isinstance(term, float) and not term.is_integer() for term in terms)
HasFloatTerm(src) ==
    \E i \in 1 .. Len(src.linear_constraints) :
        LET constraint == src.linear_constraints[i] IN
        \/ ~is_integer(constraint.rhs)
        \/ \E k \in DOMAIN constraint.linear : ~is_integer(constraint.linear[k])

AbsValues(d) == [k \in DOMAIN d |-> Abs(d[k])]

\* The estimate with the coefficients summed as they are, abs() left out.
_auto_define_penalty_noabs(src) ==
    IF HasFloatTerm(src) THEN default_penalty
    ELSE Real(1) + fsum(src.linear) + fsum(src.quadratic)

\* _auto_define_penalty(self), reading self._src.
_auto_define_penalty(src) ==
    IF HasFloatTerm(src) THEN default_penalty
    ELSE Real(1) + fsum(AbsValues(src.linear)) + fsum(AbsValues(src.quadratic))

\* ---------------------------------------------------------------- convert

\* The penalty resolved from the recorded value alone, estimated only while none is
\* recorded.
ResolvePenaltyCached(should_define, penalty, src) ==
    IF penalty = None THEN _auto_define_penalty(src) ELSE penalty[1]

\* The penalty a conversion uses (convert, "If no penalty was given ...").

ResolvePenalty(should_define, penalty, src) ==
    IF should_define THEN _auto_define_penalty(src) ELSE penalty[1]

\* The "Set variables" loop with the integer branch creating a continuous variable.
RECURSIVE SetVariablesIntegerAsContinuous(_, _, _)
SetVariablesIntegerAsContinuous(src, dst, i) ==
    IF i > Len(src.variables) THEN [raised |-> FALSE, dst |-> dst]
    ELSE LET x == src.variables[i] IN
         IF x.vartype \in {"CONTINUOUS", "INTEGER"}
         THEN SetVariablesIntegerAsContinuous(
                 src, continuous_var(dst, x.lowerbound, x.upperbound, x.name), i + 1)
         ELSE IF x.vartype = "BINARY"
         THEN SetVariablesIntegerAsContinuous(src, binary_var(dst, x.name), i + 1)
         ELSE [raised |-> TRUE, dst |-> dst]

\* The "Set variables" loop from variable i on: the destination with the variables
\* added, or the destination as it was when the unsupported variable raised.
RECURSIVE SetVariables(_, _, _)
SetVariables(src, dst, i) ==
    IF i > Len(src.variables) THEN [raised |-> FALSE, dst |-> dst]
    ELSE LET x == src.variables[i] IN
         IF x.vartype = "CONTINUOUS"
         THEN SetVariables(src, continuous_var(dst, x.lowerbound, x.upperbound, x.name), i + 1)
         ELSE IF x.vartype = "BINARY"
         THEN SetVariables(src, binary_var(dst, x.name), i + 1)
         ELSE IF x.vartype = "INTEGER"
         THEN SetVariables(src, integer_var(dst, x.lowerbound, x.upperbound, x.name), i + 1)
         ELSE [raised |-> TRUE, dst |-> dst]

\* penalty * coef, the sense left out.
PenaltyTermUnsigned(sense, penalty, coef) == Mul(penalty, coef)

\* sense * penalty * coef

PenaltyTerm(sense, penalty, coef) == Mul(sense * penalty, coef)

\* for j, coef in row.items(): d[j] = d.get(j, 0.0) + sense * penalty * coef
RECURSIVE AddRow(_, _, _, _, _)
AddRow(d, row, keys, sense, penalty) ==
    IF keys = {} THEN d
    ELSE LET j == CHOOSE j \in keys : TRUE IN
         AddRow(AddTo(d, j, PenaltyTerm(sense, penalty, row[j])), row, keys \ {j},
                sense, penalty)

\* The index of the first template from k on that the constraint matches, 0 if none
\* (the inner for loop with its break and its else).
RECURSIVE FirstSpecial(_, _)
FirstSpecial(constraint, k) ==
    IF k > Len(_special_constraints) THEN 0
    ELSE IF is_special_constraint(_special_constraints[k], constraint) THEN k
    ELSE FirstSpecial(constraint, k + 1)

\* The body of the matching branch: the template's penalty terms added to the
\* objective accumulators.
AddPenalty(st, special_constraint, sense, penalty) ==
    [st EXCEPT
        !.offset = @ + PenaltyTerm(sense, penalty, special_constraint.penalty_constant),
        !.linear = AddRow(@, special_constraint.penalty_linear_expression,
                          DOMAIN special_constraint.penalty_linear_expression,
                          sense, penalty),
        !.quadratic = AddRow(@, special_constraint.penalty_quadratic_expression,
                             DOMAIN special_constraint.penalty_quadratic_expression,
                             sense, penalty)]

\* The else branch of the inner loop: the constraint copied to the destination.
CopyLinearConstraint(st, constraint) ==
    [st EXCEPT !.dst = linear_constraint(@, constraint.linear, constraint.sense,
                                         constraint.rhs, constraint.name)]

\* One pass of the outer loop with the else branch taken on a match as well.
ConvertLinearConstraintAlsoCopy(st, constraint, sense, penalty) ==
    LET k == FirstSpecial(constraint, 1) IN
    IF k # 0
    THEN CopyLinearConstraint(AddPenalty(st, _special_constraints[k], sense, penalty),
                              constraint)
    ELSE CopyLinearConstraint(st, constraint)

\* One pass of the outer loop "convert linear constraints into penalty terms".
ConvertLinearConstraint(st, constraint, sense, penalty) ==
    LET k == FirstSpecial(constraint, 1) IN
    IF k # 0 THEN AddPenalty(st, _special_constraints[k], sense, penalty)
    ELSE CopyLinearConstraint(st, constraint)

RECURSIVE ConvertLinearConstraints(_, _, _, _, _)
ConvertLinearConstraints(st, src, i, sense, penalty) ==
    IF i > Len(src.linear_constraints) THEN st
    ELSE ConvertLinearConstraints(
            ConvertLinearConstraint(st, src.linear_constraints[i], sense, penalty),
            src, i + 1, sense, penalty)

\* "convert quadratic constraints into penalty terms": every one is copied.
RECURSIVE ConvertQuadraticConstraints(_, _, _)
ConvertQuadraticConstraints(dst, src, i) ==
    IF i > Len(src.quadratic_constraints) THEN dst
    ELSE LET constraint == src.quadratic_constraints[i] IN
         ConvertQuadraticConstraints(
            quadratic_constraint(dst, constraint.linear, constraint.quadratic,
                                 constraint.sense, constraint.rhs, constraint.name),
            src, i + 1)

\* The destination with the objective committed under the source's sense.
SetObjective(dst, src, offset, linear, quadratic) ==
    IF src.sense = MINIMIZE THEN minimize(dst, offset, linear, quadratic)
    ELSE maximize(dst, offset, linear, quadratic)

\* convert building the destination in the caller's instance instead of a new one.
convert_inplace(self, P) ==
    LET penalty == ResolvePenalty(self.should_define, self.penalty, P)
        vs == SetVariables(P, QuadraticProgram(P.name), 1)
        st == ConvertLinearConstraints(
                 [dst |-> [P EXCEPT !.linear_constraints = <<>>,
                                    !.quadratic_constraints = <<>>],
                  offset |-> P.constant, linear |-> P.linear, quadratic |-> P.quadratic],
                 P, 1, P.sense, penalty)
        out == SetObjective(ConvertQuadraticConstraints(st.dst, P, 1), P,
                            st.offset, st.linear, st.quadratic)
    IN  IF vs.raised
        THEN [src |-> Some(P), dst |-> Some(vs.dst), penalty |-> self.penalty,
              should_define |-> self.should_define, problem |-> P,
              raised |-> Some("QiskitOptimizationError"), value |-> None]
        ELSE [src |-> Some(out), dst |-> Some(out), penalty |-> Some(penalty),
              should_define |-> self.should_define, problem |-> out,
              raised |-> None, value |-> Some(out)]

\* convert fixing the penalty it resolved as the configured one, also when it raises.
convert_sets_mode(self, P) ==
    LET src == deepcopy(P)
        penalty == ResolvePenalty(self.should_define, self.penalty, src)
        vs == SetVariables(src, QuadraticProgram(P.name), 1)
        st == ConvertLinearConstraints(
                 [dst |-> vs.dst, offset |-> src.constant,
                  linear |-> src.linear, quadratic |-> src.quadratic],
                 src, 1, src.sense, penalty)
        dst == SetObjective(ConvertQuadraticConstraints(st.dst, src, 1), src,
                            st.offset, st.linear, st.quadratic)
    IN  IF vs.raised
        THEN [src |-> Some(src), dst |-> Some(vs.dst), penalty |-> Some(penalty),
              should_define |-> FALSE, problem |-> P,
              raised |-> Some("QiskitOptimizationError"), value |-> None]
        ELSE [src |-> Some(src), dst |-> Some(dst), penalty |-> Some(penalty),
              should_define |-> FALSE, problem |-> P,
              raised |-> None, value |-> Some(dst)]

\* convert(self, problem) on a converter (src, dst, penalty, should_define): the
\* converter's fields and the caller's problem after the call, and the outcome.
convert(self, P) ==
    LET src == deepcopy(P)
        penalty == ResolvePenalty(self.should_define, self.penalty, src)
        vs == SetVariables(src, QuadraticProgram(P.name), 1)
        st == ConvertLinearConstraints(
                 [dst |-> vs.dst, offset |-> src.constant,
                  linear |-> src.linear, quadratic |-> src.quadratic],
                 src, 1, src.sense, penalty)
        dst == SetObjective(ConvertQuadraticConstraints(st.dst, src, 1), src,
                            st.offset, st.linear, st.quadratic)
    IN  IF vs.raised
        THEN [src |-> Some(src), dst |-> Some(vs.dst), penalty |-> self.penalty,
              should_define |-> self.should_define, problem |-> P,
              raised |-> Some("QiskitOptimizationError"), value |-> None]
        ELSE [src |-> Some(src), dst |-> Some(dst), penalty |-> Some(penalty),
              should_define |-> self.should_define, problem |-> P,
              raised |-> None, value |-> Some(dst)]

\* ---------------------------------------------------------------- interpret

\* np.asarray(x): the array of the elements of x, in order.
asarray(x) == [i \in 1 .. Len(x) |-> x[i]]

\* interpret accepting every vector that is not too long.
interpret_atmost(src, x) ==
    IF src = None THEN [raised |-> Some("AttributeError"), value |-> None]
    ELSE IF Len(x) > get_num_vars(src[1])
    THEN [raised |-> Some("QiskitOptimizationError"), value |-> None]
    ELSE [raised |-> None, value |-> Some(asarray(x))]

\* interpret(self, x); self._src is None until the first convert.
interpret(src, x) ==
    IF src = None THEN [raised |-> Some("AttributeError"), value |-> None]
    ELSE IF Len(x) # get_num_vars(src[1])
    THEN [raised |-> Some("QiskitOptimizationError"), value |-> None]
    ELSE [raised |-> None, value |-> Some(asarray(x))]

\* ---------------------------------------------------------------- inputs

VarName(i) == <<"x", i>>

ConName(i) == <<"c", i>>

BinaryVars(n) == [i \in 1 .. n |-> Variable(VarName(i - 1), "BINARY", 0, Real(1))]

\* Unordered pairs of distinct variable indices.
Pairs(n) == {q \in Idx(n) \X Idx(n) : q[1] < q[2]}

\* The dict {i: a, j: b}.
Dict2(i, a, j, b) == [k \in {i, j} |-> IF k = i THEN a ELSE b]

Con(linear, sense, rhs) == [linear |-> linear, sense |-> sense, rhs |-> rhs]

\* xi + xj <= 1 on every pair of variables, and xi + xj >= 1 on the last pair.
PairCons(n) ==
    {Con(Dict2(q[1], Real(1), q[2], Real(1)), "<=", Real(1)) : q \in Pairs(n)}
    \cup
    {Con(Dict2(n - 2, Real(1), n - 1, Real(1)), ">=", Real(1))}

\* Constraints one step away from the templates: another sense, another right-hand
\* side, another coefficient, a larger support, a non-integral term.
NearCons(n) ==
    { Con(Dict2(0, Real(1), 1, Real(1)), "==", Real(1)),
      Con(Dict2(0, Real(1), 1, Real(1)), "<=", Real(2)),
      Con(Dict2(0, Real(1), 1, Real(1)), "<=", 3),
      Con(Dict2(0, Real(2), 1, Real(1)), "<=", Real(1)),
      Con(Dict2(0, 3, 1, Real(1)), ">=", Real(1)),
      Con([k \in Idx(n) |-> Real(1)], ">=", Real(1)) }

\* The constraint bodies of a list given their names c0, c1, ... by position.
Named(l) ==
    [i \in 1 .. Len(l) |->
        [linear |-> l[i].linear, sense |-> l[i].sense, rhs |-> l[i].rhs,
         name |-> ConName(i - 1)]]

ConLists(pool, m) == UNION {[1 .. k -> pool] : k \in 0 .. m}

Problem(name, variables, sense, constant, linear, quadratic, lincons, quadcons) ==
    [name |-> name, variables |-> variables, sense |-> sense, constant |-> constant,
     linear |-> Expr(linear), quadratic |-> Expr(quadratic),
     linear_constraints |-> Named(lincons), quadratic_constraints |-> quadcons]

Objective(sense, constant, linear, quadratic) ==
    [sense |-> sense, constant |-> constant, linear |-> linear, quadratic |-> quadratic]

\* 1 - 2*x0 + x(n-1) + 3*x0*x1 under both senses.
FewObjectives(n) ==
    { Objective(s, Real(1), Dict2(0, Real(-2), n - 1, Real(1)),
                [k \in {<<0, 1>>} |-> Real(3)]) : s \in {MINIMIZE, MAXIMIZE} }

\* Binary problems with few objectives and every list of constraints near the
\* templates.
ConstraintProblem(P) ==
    \E n \in 2 .. MaxVars :
        \E o \in FewObjectives(n), l \in ConLists(PairCons(n) \cup NearCons(n), MaxCons) :
            P = Problem("A", BinaryVars(n), o.sense, o.constant, o.linear, o.quadratic, l, <<>>)

ObjCoefs == {0, Real(1), Real(-2)}

QuadChoices(n) ==
    { <<>>, [k \in {<<0, 1>>} |-> Real(3)], [k \in {<<n - 2, n - 1>>} |-> Real(-1)],
      [k \in {<<0, 0>>} |-> Real(1)] }

FewConLists ==
    { <<>>,
      << Con(Dict2(0, Real(1), 1, Real(1)), "<=", Real(1)) >>,
      << Con(Dict2(MaxVars - 2, Real(1), MaxVars - 1, Real(1)), ">=", Real(1)) >>,
      << Con(Dict2(0, Real(1), 1, Real(1)), "<=", 3) >>,
      << Con(Dict2(0, Real(1), MaxVars - 1, Real(1)), "<=", Real(1)),
         Con(Dict2(0, Real(1), 1, Real(1)), ">=", Real(1)) >> }

\* Binary problems with every objective over a few coefficients and few lists of
\* constraints.
ObjectiveProblem(P) ==
    \E s \in {MINIMIZE, MAXIMIZE}, lin \in [Idx(MaxVars) -> ObjCoefs],
       quad \in QuadChoices(MaxVars), l \in FewConLists :
        P = Problem("B", BinaryVars(MaxVars), s, 0, lin, quad, l, <<>>)

\* Variable.Type has CONTINUOUS, BINARY and INTEGER; convert's last branch is for
\* any other value.
VarTypes == {"CONTINUOUS", "BINARY", "INTEGER", "SEMI_CONTINUOUS"}

TypedVars(types) ==
    [i \in 1 .. Len(types) |->
        IF types[i] = "BINARY" THEN Variable(VarName(i - 1), "BINARY", 0, Real(1))
        ELSE IF types[i] = "CONTINUOUS" THEN Variable(VarName(i - 1), "CONTINUOUS", Real(-1), 3)
        ELSE IF types[i] = "INTEGER" THEN Variable(VarName(i - 1), "INTEGER", Real(i), Real(4))
        ELSE Variable(VarName(i - 1), types[i], 0, Real(5))]

QuadConLists ==
    { <<>>,
      << [linear |-> [k \in {0} |-> Real(1)], quadratic |-> [k \in {<<0, 0>>} |-> Real(1)],
          sense |-> "<=", rhs |-> Real(1), name |-> <<"q", 0>>] >> }

\* Constraint lists for a problem of n variables of any types: none, a single
\* variable, a matching pair, a pair with a negative coefficient.
TypedConLists(n) ==
    { <<>>, << Con([k \in {0} |-> Real(1)], "<=", Real(1)) >> }
    \cup
    (IF n >= 2
     THEN { << Con(Dict2(0, Real(1), n - 1, Real(1)), "<=", Real(1)) >>,
            << Con(Dict2(0, Real(1), n - 1, Real(-1)), ">=", Real(1)) >> }
     ELSE {})

\* Problems over every sequence of variable types.
VariableProblem(P) ==
    \E n \in 1 .. MaxVars :
        \E types \in [1 .. n -> VarTypes], l \in TypedConLists(n), qc \in QuadConLists :
            P = Problem("C", TypedVars(types), MINIMIZE, 0, [k \in {0} |-> Real(1)], <<>>, l, qc)

\* The problems of the specification's examples: minimize and maximize x0 + x1
\* subject to x0 + x1 <= 1 over 3 binary variables, and minimize 2*x0 + 3*x0*x1.
ExampleProblems ==
    { Problem("E", BinaryVars(3), s, 0, Dict2(0, Real(1), 1, Real(1)), <<>>,
              << Con(Dict2(0, Real(1), 1, Real(1)), "<=", Real(1)) >>, <<>>) :
        s \in {MINIMIZE, MAXIMIZE} }
    \cup
    { Problem("E", BinaryVars(2), MINIMIZE, 0, [k \in {0} |-> Real(2)],
              [k \in {<<0, 1>>} |-> Real(3)], <<>>, <<>>) }

\* The penalty argument: None, or an explicit value (1.5 and 10).
Penalties == {None, Some(3), Some(Real(10))}

\* The penalty argument of a converter used for one problem: None or 1.5.
OnePenalties == {None, Some(3)}

\* The problems a caller converts in turn with one converter.
CallerProblems ==
    { Problem("L1", BinaryVars(3), MINIMIZE, 0, Dict2(0, Real(1), 1, Real(1)), <<>>,
              << Con(Dict2(0, Real(1), 1, Real(1)), "<=", Real(1)) >>, <<>>),
      Problem("L2", BinaryVars(MaxVars), MAXIMIZE, 0, Dict2(0, Real(1), 1, Real(1)), <<>>,
              << Con(Dict2(MaxVars - 2, Real(1), MaxVars - 1, Real(1)), ">=", Real(1)),
                 Con(Dict2(0, Real(1), 1, Real(1)), "==", Real(1)) >>, <<>>),
      Problem("L3", BinaryVars(2), MINIMIZE, Real(1), Dict2(0, Real(-2), 1, Real(1)),
              [k \in {<<0, 1>>} |-> Real(3)], <<>>, <<>>),
      Problem("L4", BinaryVars(3), MINIMIZE, 0, [k \in {0} |-> Real(2)],
              [k \in {<<0, 1>>} |-> Real(3)],
              << Con(Dict2(0, Real(1), 1, Real(1)), "<=", 3) >>, <<>>),
      Problem("L5", TypedVars(<<"BINARY", "SEMI_CONTINUOUS">>), MINIMIZE, 0,
              [k \in {0} |-> Real(1)], <<>>,
              << Con(Dict2(0, Real(1), 1, Real(1)), "<=", Real(1)) >>, <<>>),
      Problem("L6", TypedVars(<<"INTEGER">>), MAXIMIZE, 0, [k \in {0} |-> Real(1)], <<>>,
              <<>>, <<>>) }

\* Solution vectors handed to interpret: 0 1 0 ... and 1 0 1 ... of every length up
\* to one more than the largest number of variables.
Vectors == {[i \in 1 .. k |-> (i + b) % 2] : k \in 0 .. MaxVars + 1, b \in {0, 1}}

\* ---------------------------------------------------------------- operations

\* What a call returned: a problem (convert), an array (interpret) or a penalty
\* (the getter), each None where the call returns no such value.
NoValue == [problem |-> None, array |-> None, penalty |-> None]

Ret(op, arg, raised, value) == [op |-> op, arg |-> arg, raised |-> raised, value |-> value]

\* __init__(penalty)
Constructed(p) ==
    /\ _src = None
    /\ _dst = None
    /\ _penalty = p
    /\ _should_define_penalty = (p = None)
    /\ configured = p
    /\ converted = None
    /\ before = None
    /\ ret = Ret("init", None, None, NoValue)

Init ==
    /\ problem \in CallerProblems
    /\ \E p \in Penalties : Constructed(p)

InitConv ==
    /\ \/ ConstraintProblem(problem)
       \/ ObjectiveProblem(problem)
       \/ VariableProblem(problem)
       \/ problem \in ExampleProblems
    /\ \E p \in OnePenalties : Constructed(p)

\* The caller builds another problem.
NewProblem ==
    /\ \E P \in CallerProblems : problem' = P
    /\ UNCHANGED <<_src, _dst, _penalty, _should_define_penalty, ret, configured,
                   converted, before>>

\* penalty.setter
SetPenalty ==
    \E p \in Penalties :
        /\ _penalty' = p
        /\ _should_define_penalty' = (p = None)
        /\ configured' = p
        /\ ret' = Ret("set_penalty", p, None, NoValue)
        /\ UNCHANGED <<problem, _src, _dst, converted, before>>

\* penalty (getter)
GetPenalty ==
    /\ ret' = Ret("get_penalty", None, None, [NoValue EXCEPT !.penalty = _penalty])
    /\ UNCHANGED <<problem, _src, _dst, _penalty, _should_define_penalty, configured,
                   converted, before>>

Self == [src |-> _src, dst |-> _dst, penalty |-> _penalty,
         should_define |-> _should_define_penalty]

Convert ==
    LET r == convert(Self, problem) IN
    /\ problem' = r.problem
    /\ _src' = r.src
    /\ _dst' = r.dst
    /\ _penalty' = r.penalty
    /\ _should_define_penalty' = r.should_define
    /\ ret' = Ret("convert", None, r.raised, [NoValue EXCEPT !.problem = r.value])
    /\ converted' = Some(problem)
    /\ before' = _penalty
    /\ UNCHANGED configured

Interpret ==
    \E x \in Vectors :
        LET r == interpret(_src, x) IN
        /\ ret' = Ret("interpret", x, r.raised, [NoValue EXCEPT !.array = r.value])
        /\ UNCHANGED <<problem, _src, _dst, _penalty, _should_define_penalty, configured,
                       converted, before>>

Next == NewProblem \/ SetPenalty \/ GetPenalty \/ Convert \/ Interpret

Spec == Init /\ [][Next]_vars

NextConv == Convert

SpecConv == InitConv /\ [][NextConv]_vars

\* ---------------------------------------------------------------- properties

\* The last call was a convert that returned a problem.
Converted == ret.op = "convert" /\ ret.raised = None

Matches(constraint) ==
    \E k \in 1 .. Len(_special_constraints) :
        is_special_constraint(_special_constraints[k], constraint)

Unmatched(constraint) == ~Matches(constraint)

\* The positions of the linear constraints of P that match a template.
Absorbed(P) == {i \in 1 .. Len(P.linear_constraints) : Matches(P.linear_constraints[i])}

\* The first template in catalog order that the i-th linear constraint of P matches.
Template(P, i) ==
    _special_constraints[
        CHOOSE k \in 1 .. Len(_special_constraints) :
            /\ is_special_constraint(_special_constraints[k], P.linear_constraints[i])
            /\ \A j \in 1 .. (k - 1) :
                  ~is_special_constraint(_special_constraints[j], P.linear_constraints[i])]

SenseMul(P) == IF P.sense = MINIMIZE THEN 1 ELSE -1

\* The estimate as the specification words it: 1e5 when a linear constraint has a
\* non-integral right-hand side or coefficient, else 1 + sum |linear| + sum |quadratic|.
StatedEstimate(P) ==
    IF \E i \in 1 .. Len(P.linear_constraints) :
          \/ P.linear_constraints[i].rhs % 2 # 0
          \/ \E k \in DOMAIN P.linear_constraints[i].linear :
                P.linear_constraints[i].linear[k] % 2 # 0
    THEN Real(100000)
    ELSE Real(1)
         + SumOver([k \in DOMAIN P.linear |-> Abs(P.linear[k])], DOMAIN P.linear)
         + SumOver([k \in DOMAIN P.quadratic |-> Abs(P.quadratic[k])], DOMAIN P.quadratic)

\* The multiplier the last configuration asks for on problem P.
StatedPenalty(P) == IF configured = None THEN StatedEstimate(P) ELSE configured[1]

AllBinary(P) == \A i \in 1 .. Len(P.variables) : P.variables[i].vartype = "BINARY"

\* The variable a matched constraint puts at a template's reference position t: the
\* variable of the same rank in the constraint's support.
Rank(S, k) == Cardinality({j \in S : j < k})

Bind(special_constraint, constraint, t) ==
    CHOOSE v \in DOMAIN constraint.linear :
        Rank(DOMAIN constraint.linear, v) = Rank(DOMAIN special_constraint.linear, t)

BindPair(special_constraint, constraint, q) ==
    <<Bind(special_constraint, constraint, q[1]), Bind(special_constraint, constraint, q[2])>>

\* The penalty terms of the absorbed constraints of P on the linear key v and on the
\* quadratic key q, each term on the variables of its own constraint.
BoundLinear(P, p, v) ==
    SumOver([i \in Absorbed(P) |->
               LET T == Template(P, i)
                   row == T.penalty_linear_expression
                   on == {t \in DOMAIN row : Bind(T, P.linear_constraints[i], t) = v}
               IN  SumOver([t \in on |-> SenseMul(P) * Mul(p, row[t])], on)],
            Absorbed(P))

BoundQuadratic(P, p, q) ==
    SumOver([i \in Absorbed(P) |->
               LET T == Template(P, i)
                   row == T.penalty_quadratic_expression
                   on == {t \in DOMAIN row : BindPair(T, P.linear_constraints[i], t) = q}
               IN  SumOver([t \in on |-> SenseMul(P) * Mul(p, row[t])], on)],
            Absorbed(P))

AllPairs(n) == {q \in Idx(n) \X Idx(n) : q[1] <= q[2]}

\* C1: every absorbed constraint's penalty decomposition is folded into the
\* destination objective on that constraint's own variables: the quadratic term on
\* the pair of its two nonzero-coefficient variables, the linear terms on those
\* variables, whatever their indices.
C1_PenaltyOnOwnVariables ==
    Converted =>
        LET P == problem
            D == ret.value.problem[1]
            p == StatedPenalty(P)
            n == Len(P.variables)
        IN  /\ \A v \in Idx(n) :
                  Get(D.linear, v) = Get(P.linear, v) + BoundLinear(P, p, v)
            /\ \A q \in AllPairs(n) :
                  Get(D.quadratic, q) = Get(P.quadratic, q) + BoundQuadratic(P, p, q)

\* The penalty terms of the absorbed constraints of P taken at the templates' own
\* keys.
TemplateLinear(P, p, v) ==
    SumOver([i \in Absorbed(P) |->
               SenseMul(P) * Mul(p, Get(Template(P, i).penalty_linear_expression, v))],
            Absorbed(P))

TemplateQuadratic(P, p, q) ==
    SumOver([i \in Absorbed(P) |->
               SenseMul(P) * Mul(p, Get(Template(P, i).penalty_quadratic_expression, q))],
            Absorbed(P))

TemplateConstant(P, p) ==
    SumOver([i \in Absorbed(P) |-> SenseMul(P) * Mul(p, Template(P, i).penalty_constant)],
            Absorbed(P))

IsExample(P) ==
    /\ Len(P.variables) = 3
    /\ AllBinary(P)
    /\ P.constant = 0
    /\ P.linear = Dict2(0, Real(1), 1, Real(1))
    /\ P.quadratic = <<>>
    /\ Len(P.linear_constraints) = 1
    /\ P.linear_constraints[1].linear = Dict2(0, Real(1), 1, Real(1))
    /\ P.linear_constraints[1].sense = "<="
    /\ P.linear_constraints[1].rhs = Real(1)

Value(D, x) ==
    D.constant
    + SumOver([k \in DOMAIN D.linear |-> D.linear[k] * x[k]], DOMAIN D.linear)
    + SumOver([k \in DOMAIN D.quadratic |-> D.quadratic[k] * x[k[1]] * x[k[2]]],
              DOMAIN D.quadratic)

\* Whether the 0/1 assignment x satisfies a linear constraint.
Satisfies(constraint, x) ==
    LET lhs == SumOver([k \in DOMAIN constraint.linear |-> constraint.linear[k] * x[k]],
                       DOMAIN constraint.linear)
    IN  IF constraint.sense = "<=" THEN lhs <= constraint.rhs
        ELSE IF constraint.sense = ">=" THEN lhs >= constraint.rhs
        ELSE lhs = constraint.rhs

SatisfiesAbsorbed(P, x) ==
    \A i \in Absorbed(P) : Satisfies(P.linear_constraints[i], x)

IntegerCoefficients(P) ==
    /\ is_integer(P.constant)
    /\ \A k \in DOMAIN P.linear : is_integer(P.linear[k])
    /\ \A k \in DOMAIN P.quadratic : is_integer(P.quadratic[k])
    /\ \A i \in 1 .. Len(P.linear_constraints) :
          /\ is_integer(P.linear_constraints[i].rhs)
          /\ \A k \in DOMAIN P.linear_constraints[i].linear :
                is_integer(P.linear_constraints[i].linear[k])

\* C3: for a binary problem with integer coefficients converted with the estimated
\* penalty, every assignment violating an absorbed constraint has a strictly worse
\* destination objective value (higher under minimize, lower under maximize) than
\* every assignment satisfying all absorbed constraints.
C3_ViolationStrictlyWorse ==
    (Converted /\ configured = None /\ AllBinary(problem) /\ IntegerCoefficients(problem)) =>
        LET P == problem
            D == ret.value.problem[1]
            X == [Idx(Len(P.variables)) -> {0, 1}]
        IN  \A x \in X : \A y \in X :
                (~SatisfiesAbsorbed(P, x) /\ SatisfiesAbsorbed(P, y)) =>
                    SenseMul(P) * Value(D, x) > SenseMul(P) * Value(D, y)

Supported == {"CONTINUOUS", "BINARY", "INTEGER"}

AllSupported(P) == \A i \in 1 .. Len(P.variables) : P.variables[i].vartype \in Supported

\* C8: when every variable is continuous, binary or integer, the converted problem
\* has the same variables in the same order with the same names, types and bounds,
\* however many constraints were absorbed; otherwise convert raises and returns no
\* problem.
C8_VariablesPreserved ==
    ret.op = "convert" =>
        IF AllSupported(problem)
        THEN /\ ret.raised = None
             /\ ret.value.problem # None
             /\ ret.value.problem[1].variables = problem.variables
        ELSE /\ ret.raised = Some("QiskitOptimizationError")
             /\ ret.value.problem = None

\* Three variables of three types converted with a constraint absorbed.
C8_Witness ==
    /\ Converted
    /\ Absorbed(problem) # {}
    /\ {problem.variables[i].vartype : i \in 1 .. Len(problem.variables)} = Supported
    /\ ret.value.problem[1].variables = problem.variables

\* C9: the estimate is 1e5 whenever a linear constraint has a non-integral
\* right-hand side or coefficient (no error raised), and otherwise 1 plus the sum of
\* the absolute values of the linear and of the quadratic objective coefficients
\* (6 for minimize 2*x0 + 3*x0*x1); it is at least 1.
C9_Estimate ==
    (ret.op = "convert" /\ configured = None /\ AllSupported(problem)) =>
        /\ ret.raised = None
        /\ _penalty = Some(StatedEstimate(problem))
        /\ _penalty[1] >= Real(1)
        /\ (problem.linear = [k \in {0} |-> Real(2)]
            /\ problem.quadratic = [k \in {<<0, 1>>} |-> Real(3)]
            /\ problem.linear_constraints = <<>>) => _penalty = Some(Real(6))

\* The estimate 6 of the example.
C9_Witness ==
    /\ Converted
    /\ configured = None
    /\ problem.linear = [k \in {0} |-> Real(2)]
    /\ problem.quadratic = [k \in {<<0, 1>>} |-> Real(3)]
    /\ problem.linear_constraints = <<>>
    /\ _penalty = Some(Real(6))

\* C5: the multiplier a convert call uses is decided by the most recent penalty
\* configuration alone: an explicit value is used as it is, and under None (the
\* constructor's default included) it is the estimate of that call's own problem,
\* never one recorded by an earlier convert.
C5_PenaltyFromLastConfiguration ==
    Converted =>
        LET P == converted[1]
            p == IF configured = None THEN StatedEstimate(P) ELSE configured[1]
        IN  /\ _penalty = Some(p)
            /\ ret.value.problem[1].constant = P.constant + TemplateConstant(P, p)

\* A convert under None that found another value recorded, by an earlier convert,
\* and did not use it.
C5_Witness ==
    /\ Converted
    /\ configured = None
    /\ before # None
    /\ before # _penalty
    /\ Absorbed(converted[1]) # {}

C7_SourceUntouched ==
    [][/\ Convert => problem' = problem
       /\ problem' # problem => NewProblem]_vars

\* A conversion that absorbed a constraint: the result differs from the problem,
\* which is as it was handed in.
C7_Witness ==
    /\ Converted
    /\ Absorbed(converted[1]) # {}
    /\ problem = converted[1]
    /\ ret.value.problem[1] # problem

====
